---- MODULE Spec2Model ----
(***************************************************************************)
(* State-machine model of src/service-worker.js: the cache lifecycle       *)
(* (install / activate), the fetch interceptor with its detached           *)
(* fetchAndCache helper, and the control-message handler, running against  *)
(* a CacheStorage whose operations complete asynchronously; and the push   *)
(* and notificationclick listeners.                                        *)
(*                                                                         *)
(* Strings that the code inspects with startsWith / includes (request      *)
(* URLs, the origin) are sequences of tokens; the tokens are cut so that   *)
(* every occurrence of a searched pattern in the real string is an         *)
(* occurrence of the pattern's tokens in the sequence.                     *)
(***************************************************************************)
EXTENDS Integers, Sequences, FiniteSets, TLC

\* ------------------------------------------------------------------ bounds
MaxEvents == 2    \* fetch events dispatched in one run
MaxMsgs   == 1    \* clear-cache messages posted in one run
MaxStale  == 1    \* cache generations of earlier versions present at start
MaxPush   == 1    \* push events dispatched in one run
MaxClicks == 1    \* notificationclick events dispatched in one run

\* --------------------------------------------------------------- constants
\* const CACHE_NAME = 'solo-leveling-v1.0.0'
CACHE_NAME == <<"solo-leveling-v", 1, 0, 0>>

StaleName(i) == <<"solo-leveling-v", 0, i, 0>>
StaleNames == {StaleName(i) : i \in 1..MaxStale}
AllNames == {CACHE_NAME} \cup StaleNames

\* self.location.origin
Origin == <<"http", "s", "://", "app.test">>

\* A relative URL is resolved against the worker's origin.
ResolveURL(path) == Origin \o path

U_root     == ResolveURL(<<"/">>)
U_index    == ResolveURL(<<"/", "index.html">>)
U_manifest == ResolveURL(<<"/", "manifest.json">>)
U_page     == ResolveURL(<<"/", "page">>)
U_font     == <<"http", "s", "://", "fonts.googleapis.com", "/", "css2">>
U_cdn      == <<"http", "s", "://", "cdnjs.cloudflare.com", "/", "jspdf.umd.min.js">>
U_mention  == <<"http", "s", "://", "tracker.test", "/", "?u=", "fonts.googleapis.com">>
U_other    == <<"http", "s", "://", "other.test", "/", "img.png">>
U_ext      == <<"chrome-extension", "://", "abcdef", "/", "page.js">>

\* const ASSETS_TO_CACHE = [...]
ASSETS_TO_CACHE == {U_root, U_index, U_manifest, U_font, U_cdn}

Keys == ASSETS_TO_CACHE \cup {U_page, U_mention, U_other, U_ext}

\* The requests the page issues in the model.
Requests ==
    { [url |-> U_index,   method |-> "GET",  mode |-> "navigate"],
      [url |-> U_page,    method |-> "GET",  mode |-> "navigate"],
      [url |-> U_mention, method |-> "GET",  mode |-> "no-cors"],
      [url |-> U_other,   method |-> "GET",  mode |-> "no-cors"],
      [url |-> U_ext,     method |-> "GET",  mode |-> "no-cors"],
      [url |-> U_page,    method |-> "POST", mode |-> "cors"] }

NoRequest == [url |-> <<>>, method |-> "", mode |-> ""]

\* ---------------------------------------------------------------- strings
\* String.prototype.startsWith
StartsWith(s, p) == Len(p) <= Len(s) /\ SubSeq(s, 1, Len(p)) = p

\* String.prototype.includes
Includes(s, p) ==
    \E i \in 1..(Len(s) - Len(p) + 1) : SubSeq(s, i, i + Len(p) - 1) = p

\* -------------------------------------------------------------- responses
NoResponse == [status |-> 0, statusText |-> "undefined", body |-> <<>>]

\* A response of the network: a complete snapshot of version v of URL u.
NetResponse(u, s, v) ==
    [status |-> s, statusText |-> IF s = 200 THEN "OK" ELSE "Not Found",
     body |-> <<u, v>>]

EmptyCache == [k \in Keys |-> NoResponse]

\* What an earlier version's install left in its generation.
StaleContent ==
    [k \in Keys |-> IF k \in {U_root, U_index} THEN NetResponse(k, 200, 0)
                    ELSE NoResponse]

\* ------------------------------------------------------------ CacheStorage
\* The names of a storage, in creation order, as a set.
NameSet(names) == {names[i] : i \in 1..Len(names)}

\* caches.open(name): the generation is created when it does not exist.
CachesOpen(names, name) ==
    IF name \in NameSet(names) THEN names ELSE Append(names, name)

\* caches.delete(name): the name no longer addresses a generation.
CachesDelete(names, name) == SelectSeq(names, LAMBDA n : n # name)

\* caches.match(request): CacheStorage.match looks the key up in every
\* generation, in creation order, and answers with the first entry found
\* (undefined when there is none).
CachesMatch(names, st, key) ==
    LET hits == {i \in 1..Len(names) : st[names[i]][key] # NoResponse}
    IN  IF hits = {} THEN NoResponse
        ELSE st[names[CHOOSE i \in hits : \A j \in hits : i <= j]][key]

\* ------------------------------------------------------------------ state
VARIABLES
    cacheNames,     \* CacheStorage: names of the generations, in creation order
    store,          \* CacheStorage: name -> (key -> stored response)
    curGen,         \* how many caches.delete(CACHE_NAME) calls have completed
    phase,          \* lifecycle of the worker
    installPc,      \* position of the install promise chain
    installGen,     \* curGen when install opened its cache handle
    installResult,  \* how the promise given to install's waitUntil settled
    seedFailed,     \* cache.addAll rejected
    keysSeen,       \* activate: the names caches.keys() resolved with
    toDelete,       \* activate: caches.delete calls still in flight
    deleteFailed,   \* activate: a caches.delete rejected
    activateResult, \* how the promise given to activate's waitUntil settled
    claimed,        \* clients.claim() has been called
    skipWaiting,    \* self.skipWaiting() has been called
    pendingClear,   \* caches.delete(CACHE_NAME) calls of the message handler in flight
    clearCount,     \* clear-cache messages received
    netDown,        \* the network is unreachable: every fetch fails
    ev,             \* the fetch events, with the fetchAndCache call of each
    putLog,         \* the cache.put calls that reached the addressable generation, in order
    wmeta,          \* key -> which fetch event wrote the entry of the current generation
    lastMsg,        \* the message the listener handled last (observed in SpecMessages)
    push,           \* the push event being handled
    pushCount,      \* push events dispatched
    notifications,  \* the notifications displayed, in order
    click,          \* the notificationclick event being handled
    clickCount,     \* notificationclick events dispatched
    calls           \* the platform calls the notificationclick listener made, in order

vars == <<cacheNames, store, curGen, phase, installPc, installGen, installResult,
          seedFailed, keysSeen, toDelete, deleteFailed, activateResult, claimed, skipWaiting,
          pendingClear, clearCount, netDown, ev, putLog, wmeta,
          lastMsg, push, pushCount, notifications, click, clickCount, calls>>

lifecycleVars == <<phase, installPc, installGen, installResult, seedFailed, keysSeen,
                   toDelete,
                   deleteFailed, activateResult, claimed>>
msgVars == <<pendingClear, clearCount>>
pushVars == <<push, pushCount, notifications>>
clickVars == <<click, clickCount, calls>>
eventVars == <<lastMsg, pushVars, clickVars>>
cacheVars == <<cacheNames, store, curGen, netDown, ev, putLog, wmeta>>

Events == 1..MaxEvents

IdleEvent ==
    [req |-> NoRequest, pc |-> "idle", path |-> "", resp |-> NoResponse,
     found |-> NoResponse, tpc |-> "none", tresp |-> NoResponse, ppc |-> "none",
     gen |-> 0, epoch |-> 0, offline |-> FALSE, prior |-> {}, lookups |-> 0]

NoMeta == [gen |-> 0, epoch |-> 0, by |-> "none"]

\* No message has been observed yet.
NoMessage == [hasData |-> FALSE, hasType |-> FALSE, type |-> "none"]

\* No push event is being handled: nothing was passed to waitUntil.
IdlePush == [pc |-> "idle", hasData |-> FALSE, data |-> <<>>, wait |-> "none"]

\* No notificationclick event is being handled.
IdleClick == [pc |-> "idle", action |-> "", url |-> "", wait |-> "none", clients |-> <<>>]

Init ==
    /\ \E n \in 0..MaxStale :
          /\ cacheNames = [i \in 1..n |-> StaleName(i)]
          /\ store = [c \in AllNames |->
                        IF c \in {StaleName(i) : i \in 1..n} THEN StaleContent
                        ELSE EmptyCache]
    /\ curGen = 0
    /\ phase = "parsed"
    /\ installPc = "none"
    /\ installGen = 0
    /\ installResult = "pending"
    /\ seedFailed = FALSE
    /\ keysSeen = {}
    /\ toDelete = {}
    /\ deleteFailed = FALSE
    /\ activateResult = "pending"
    /\ claimed = FALSE
    /\ skipWaiting = FALSE
    /\ pendingClear = 0
    /\ clearCount = 0
    /\ netDown = FALSE
    /\ ev = [e \in Events |-> IdleEvent]
    /\ putLog = <<>>
    /\ wmeta = [k \in Keys |-> NoMeta]
    /\ lastMsg = NoMessage
    /\ push = IdlePush
    /\ pushCount = 0
    /\ notifications = <<>>
    /\ click = IdleClick
    /\ clickCount = 0
    /\ calls = <<>>

\* ---------------------------------------------------------------- install
\* The seed manifest as cache.addAll stores it: one snapshot per listed URL.
SeedContent(cache) ==
    [k \in Keys |-> IF k \in ASSETS_TO_CACHE THEN NetResponse(k, 200, 1) ELSE cache[k]]

\* How the promise handed to install's waitUntil settles, given whether the
\* open/addAll/skipWaiting chain rejected: the trailing .catch logs the error
\* and returns normally.
InstallSettled(chainRejected) == "resolved"

\* The install event is dispatched: caches.open(CACHE_NAME) is issued.
InstallStart ==
    /\ phase = "parsed"
    /\ phase' = "installing"
    /\ installPc' = "open"
    /\ UNCHANGED <<eventVars, cacheNames, store, curGen, installGen, installResult, seedFailed,
                   keysSeen, toDelete, deleteFailed, activateResult, claimed, skipWaiting,
                   msgVars, netDown, ev, putLog, wmeta>>

\* caches.open resolves; cache.addAll(ASSETS_TO_CACHE) is issued on the handle.
InstallOpen ==
    /\ installPc = "open"
    /\ cacheNames' = CachesOpen(cacheNames, CACHE_NAME)
    /\ installGen' = curGen
    /\ installPc' = "addAll"
    /\ UNCHANGED <<eventVars, store, curGen, phase, installResult, seedFailed, keysSeen, toDelete,
                   deleteFailed, activateResult, claimed, skipWaiting, msgVars,
                   netDown, ev, putLog, wmeta>>

\* Every seed was fetched with an ok status: addAll stores them all at once
\* (into the generation its handle refers to), then skipWaiting() is called.
InstallAddAllOk ==
    /\ installPc = "addAll"
    /\ ~netDown
    /\ IF installGen = curGen
       THEN /\ store' = [store EXCEPT ![CACHE_NAME] = SeedContent(@)]
            /\ wmeta' = [k \in Keys |->
                           IF k \in ASSETS_TO_CACHE
                           THEN [gen |-> installGen, epoch |-> 0, by |-> "install"]
                           ELSE wmeta[k]]
       ELSE UNCHANGED <<store, wmeta>>
    /\ skipWaiting' = TRUE
    /\ installResult' = InstallSettled(FALSE)
    /\ installPc' = "done"
    /\ phase' = "installed"
    /\ UNCHANGED <<eventVars, cacheNames, curGen, installGen, seedFailed, keysSeen, toDelete, deleteFailed,
                   activateResult, claimed, msgVars, netDown, ev, putLog>>

\* A seed could not be fetched (or had a non-ok status): addAll rejects and
\* stores nothing; the chain's .catch runs.
InstallAddAllFail ==
    /\ installPc = "addAll"
    /\ seedFailed' = TRUE
    /\ installResult' = InstallSettled(TRUE)
    /\ installPc' = "done"
    /\ phase' = "installed"
    /\ UNCHANGED <<eventVars, cacheNames, store, curGen, installGen, keysSeen, toDelete, deleteFailed,
                   activateResult, claimed, skipWaiting, msgVars, netDown, ev,
                   putLog, wmeta>>

\* --------------------------------------------------------------- activate
\* The effect of a completed caches.delete(n) on the storage: the name is
\* removed with its entries; handles opened on CACHE_NAME before keep
\* referring to the deleted generation (curGen counts its deletions).
Deleted(n) ==
    /\ cacheNames' = CachesDelete(cacheNames, n)
    /\ store' = [store EXCEPT ![n] = EmptyCache]
    /\ IF n = CACHE_NAME
       THEN /\ curGen' = curGen + 1
            /\ wmeta' = [k \in Keys |-> NoMeta]
       ELSE UNCHANGED <<curGen, wmeta>>

\* A filter that keeps the current name instead of dropping it.
StaleGenerationsInverted(names) == {n \in NameSet(names) : n = CACHE_NAME}

\* cacheNames.filter((cacheName) => cacheName !== CACHE_NAME)
StaleGenerations(names) == {n \in NameSet(names) : n # CACHE_NAME}

\* The activate event is dispatched once the install's promise has resolved:
\* caches.keys() resolves and one caches.delete per stale name is issued.
ActivateStart ==
    /\ phase = "installed"
    /\ installResult = "resolved"
    /\ phase' = "activating"
    /\ keysSeen' = NameSet(cacheNames)
    /\ toDelete' = StaleGenerations(cacheNames)
    /\ UNCHANGED <<eventVars, cacheNames, store, curGen, installPc, installGen, installResult,
                   seedFailed, deleteFailed, activateResult, claimed, skipWaiting,
                   msgVars, netDown, ev, putLog, wmeta>>

\* One caches.delete(cacheName) completes.
ActivateDelete(n) ==
    /\ n \in toDelete
    /\ Deleted(n)
    /\ toDelete' = toDelete \ {n}
    /\ UNCHANGED <<eventVars, keysSeen, phase, installPc, installGen, installResult, seedFailed,
                   deleteFailed, activateResult, claimed, skipWaiting, msgVars,
                   netDown, ev, putLog>>

\* One caches.delete(cacheName) rejects (a storage error).
ActivateDeleteFail(n) ==
    /\ n \in toDelete
    /\ phase = "activating"
    /\ deleteFailed' = TRUE
    /\ toDelete' = toDelete \ {n}
    /\ UNCHANGED <<eventVars, keysSeen, cacheNames, store, curGen, phase, installPc, installGen,
                   installResult, seedFailed, activateResult, claimed, skipWaiting,
                   msgVars, netDown, ev, putLog, wmeta>>

\* A listener that claims the clients without waiting for the deletions.
ActivateClaimEarly ==
    /\ phase = "activating"
    /\ claimed' = TRUE
    /\ activateResult' = "resolved"
    /\ phase' = "activated"
    /\ UNCHANGED <<eventVars, cacheNames, store, curGen, installPc, installGen, installResult,
                   seedFailed, keysSeen, toDelete, deleteFailed, skipWaiting, msgVars, netDown,
                   ev, putLog, wmeta>>

\* Promise.all resolved: "Activation complete", self.clients.claim().
ActivateClaim ==
    /\ phase = "activating"
    /\ toDelete = {}
    /\ ~deleteFailed
    /\ claimed' = TRUE
    /\ activateResult' = "resolved"
    /\ phase' = "activated"
    /\ UNCHANGED <<eventVars, cacheNames, store, curGen, installPc, installGen, installResult,
                   seedFailed, keysSeen, toDelete, deleteFailed, skipWaiting, msgVars, netDown,
                   ev, putLog, wmeta>>

\* Promise.all rejected: the .then is skipped and the waitUntil promise
\* rejects; the platform activates the worker all the same.
ActivateReject ==
    /\ phase = "activating"
    /\ deleteFailed
    /\ activateResult' = "rejected"
    /\ phase' = "activated"
    /\ UNCHANGED <<eventVars, cacheNames, store, curGen, installPc, installGen, installResult,
                   seedFailed, keysSeen, toDelete, deleteFailed, claimed, skipWaiting, msgVars,
                   netDown, ev, putLog, wmeta>>

\* ---------------------------------------------------------------- message
Messages ==
    { [hasData |-> TRUE,  hasType |-> TRUE,  type |-> "SKIP_WAITING"],
      [hasData |-> TRUE,  hasType |-> TRUE,  type |-> "CLEAR_CACHE"],
      [hasData |-> TRUE,  hasType |-> TRUE,  type |-> "PING"],
      [hasData |-> TRUE,  hasType |-> FALSE, type |-> ""],
      [hasData |-> FALSE, hasType |-> FALSE, type |-> ""] }

\* A test of the type that forgets the comparison.
IsSkipWaitingAnyType(m) == m.hasData /\ m.hasType

\* event.data && event.data.type === 'SKIP_WAITING'
IsSkipWaiting(m) == m.hasData /\ m.hasType /\ m.type = "SKIP_WAITING"

\* event.data && event.data.type === 'CLEAR_CACHE'
IsClearCache(m) == m.hasData /\ m.hasType /\ m.type = "CLEAR_CACHE"

\* The body of the message listener: skipWaiting() is called at once,
\* caches.delete is issued and completes later.
OnMessage(m) ==
    /\ skipWaiting' = (skipWaiting \/ IsSkipWaiting(m))
    /\ pendingClear' = IF IsClearCache(m) THEN pendingClear + 1 ELSE pendingClear
    /\ clearCount' = IF IsClearCache(m) THEN clearCount + 1 ELSE clearCount

\* A message event is dispatched. Messages reach the worker from the moment
\* it is installing.
Message(m) ==
    /\ phase # "parsed"
    /\ IsClearCache(m) => clearCount < MaxMsgs
    /\ OnMessage(m)
    /\ UNCHANGED <<eventVars, cacheNames, store, curGen, lifecycleVars, netDown, ev, putLog, wmeta>>

\* The same dispatch with the handled message kept for observation.
MessageSeen(m) ==
    /\ phase # "parsed"
    /\ IsClearCache(m) => clearCount < MaxMsgs
    /\ OnMessage(m)
    /\ lastMsg' = m
    /\ UNCHANGED <<pushVars, clickVars, cacheNames, store, curGen, lifecycleVars, netDown,
                   ev, putLog, wmeta>>

\* A listener that deletes a generation of another name.
ClearTargetOther == StaleName(1)

\* The name the message listener passes to caches.delete.
ClearTarget == CACHE_NAME

\* caches.delete(CACHE_NAME) of the message listener completes: the name is
\* removed; handles opened before keep referring to the deleted generation.
ClearResolve ==
    /\ pendingClear > 0
    /\ pendingClear' = pendingClear - 1
    /\ Deleted(ClearTarget)
    /\ UNCHANGED <<eventVars, lifecycleVars, skipWaiting, clearCount, netDown, ev, putLog>>

\* The network becomes unreachable.
GoOffline ==
    /\ ~netDown
    /\ netDown' = TRUE
    /\ UNCHANGED <<eventVars, cacheNames, store, curGen, lifecycleVars, skipWaiting, msgVars,
                   ev, putLog, wmeta>>

\* ------------------------------------------------------------------ fetch
otherVars == <<lifecycleVars, skipWaiting, msgVars, netDown>>

\* A listener without the method guard.
InterceptedAnyMethod(r) == StartsWith(r.url, <<"http">>)

\* The guards of the fetch listener: GET only, URL starting with 'http'.
Intercepted(r) == r.method = "GET" /\ StartsWith(r.url, <<"http">>)

\* The condition under which fetchAndCache calls cache.put.
ShouldCache(url) ==
    \/ StartsWith(url, Origin)
    \/ Includes(url, <<"fonts.googleapis.com">>)
    \/ Includes(url, <<"fonts.gstatic.com">>)
    \/ Includes(url, <<"cdnjs.cloudflare.com">>)

\* new Response('', { status: 408, statusText: 'Offline' })
OfflineResponse == [status |-> 408, statusText |-> "Offline", body |-> <<>>]

\* The snapshots that earlier fetch events for the same request obtained
\* from the network with status 200 and have already answered with.
PriorSnapshots(r) ==
    { ev[f].tresp : f \in { g \in Events : /\ ev[g].pc = "done"
                                           /\ ev[g].path = "miss"
                                           /\ ev[g].req = r
                                           /\ ev[g].tpc = "returned"
                                           /\ ev[g].tresp.status = 200 } }

\* A fetch event is dispatched to the activated worker. A request that fails
\* a guard is left to the browser; otherwise respondWith is called and
\* caches.match(event.request) is issued (lookups counts the caches.match
\* calls made for the event's request).
FetchEvent(e, r) ==
    /\ phase = "activated"
    /\ ev[e].pc = "idle"
    /\ IF e = 1 THEN TRUE ELSE ev[e - 1].pc # "idle"
    /\ ev' = [ev EXCEPT ![e] =
                IF Intercepted(r)
                THEN [@ EXCEPT !.req = r, !.pc = "match", !.epoch = clearCount,
                               !.offline = netDown, !.prior = PriorSnapshots(r),
                               !.lookups = 1]
                ELSE [@ EXCEPT !.req = r, !.pc = "passthrough"]]
    /\ UNCHANGED <<eventVars, cacheNames, store, curGen, otherVars, putLog, wmeta>>

\* A listener that answers a hit with the refresh's result (network first).
OnMatchAwaitsRefresh(rec, cached) ==
    IF cached # NoResponse
    THEN [rec EXCEPT !.path = "hit", !.found = cached, !.pc = "await", !.tpc = "fetch"]
    ELSE [rec EXCEPT !.path = "miss", !.pc = "await", !.tpc = "fetch"]

\* The first .then of the listener: a stored entry is returned at once and
\* fetchAndCache is called without being awaited; with no entry the
\* listener returns fetchAndCache's promise.
OnMatch(rec, cached) ==
    IF cached # NoResponse
    THEN [rec EXCEPT !.path = "hit", !.found = cached, !.resp = cached,
                     !.pc = "done", !.tpc = "fetch"]
    ELSE [rec EXCEPT !.path = "miss", !.pc = "await", !.tpc = "fetch"]

MatchResolve(e) ==
    /\ ev[e].pc = "match"
    /\ ev' = [ev EXCEPT ![e] = OnMatch(@, CachesMatch(cacheNames, store, @.req.url))]
    /\ UNCHANGED <<eventVars, cacheNames, store, curGen, otherVars, putLog, wmeta>>

\* fetchAndCache returns value: a listener that awaits it responds with it.
Return(rec, value) ==
    IF rec.pc = "await"
    THEN [rec EXCEPT !.tpc = "returned", !.resp = value, !.pc = "done"]
    ELSE [rec EXCEPT !.tpc = "returned"]

\* A .catch without the test of the request mode.
OnCatchAlwaysShell(rec) == [rec EXCEPT !.pc = "fallback"]

\* The listener's .catch: caches.match('/index.html') for a navigation,
\* the 408 response for anything else.
OnCatch(rec) ==
    IF rec.req.mode = "navigate"
    THEN [rec EXCEPT !.pc = "fallback"]
    ELSE [rec EXCEPT !.resp = OfflineResponse, !.pc = "done"]

\* fetchAndCache rethrows: a listener that awaits it runs its .catch; the
\* rejection of a call that is not awaited is observed by nobody.
Throw(rec) ==
    IF rec.pc = "await"
    THEN OnCatch([rec EXCEPT !.tpc = "threw"])
    ELSE [rec EXCEPT !.tpc = "threw"]

\* The body version a live fetch of event e obtains: every live fetch gets a
\* snapshot of its own (version 0 is what a stale generation holds, version 1
\* what install stored).
FreshVersion(e) == e + 1

\* fetch(request) resolves with status 200: caches.open(CACHE_NAME) is issued.
FetchOk(e) ==
    /\ ev[e].tpc = "fetch"
    /\ ~netDown
    /\ ev' = [ev EXCEPT ![e] =
                [@ EXCEPT !.tpc = "open",
                          !.tresp = NetResponse(ev[e].req.url, 200, FreshVersion(e))]]
    /\ UNCHANGED <<eventVars, cacheNames, store, curGen, otherVars, putLog, wmeta>>

\* A helper without the status test: a response of any status is stored.
FetchNotOkStores(e) ==
    /\ ev[e].tpc = "fetch"
    /\ ~netDown
    /\ ev' = [ev EXCEPT ![e] =
                [@ EXCEPT !.tpc = "open",
                          !.tresp = NetResponse(ev[e].req.url, 404, 0)]]
    /\ UNCHANGED <<eventVars, cacheNames, store, curGen, otherVars, putLog, wmeta>>

\* fetch(request) resolves with another status: the response is returned as is.
FetchNotOk(e) ==
    /\ ev[e].tpc = "fetch"
    /\ ~netDown
    /\ ev' = [ev EXCEPT ![e] =
                Return([@ EXCEPT !.tresp = NetResponse(ev[e].req.url, 404, 0)],
                       NetResponse(ev[e].req.url, 404, 0))]
    /\ UNCHANGED <<eventVars, cacheNames, store, curGen, otherVars, putLog, wmeta>>

\* A helper that drops the stored entry when the network fails.
FetchErrorEvicts(e) ==
    /\ ev[e].tpc = "fetch"
    /\ ev' = [ev EXCEPT ![e] = [@ EXCEPT !.tpc = "catch", !.lookups = @ + 1]]
    /\ store' = [store EXCEPT ![CACHE_NAME][ev[e].req.url] = NoResponse]
    /\ UNCHANGED <<eventVars, cacheNames, curGen, otherVars, putLog, wmeta>>

\* fetch(request) rejects: the catch block issues caches.match(request).
FetchError(e) ==
    /\ ev[e].tpc = "fetch"
    /\ ev' = [ev EXCEPT ![e] = [@ EXCEPT !.tpc = "catch", !.lookups = @ + 1]]
    /\ UNCHANGED <<eventVars, cacheNames, store, curGen, otherVars, putLog, wmeta>>

\* caches.open resolves (creating the generation when it is missing); for a
\* URL that passes the check cache.put is called, not awaited, and the
\* response is returned.
OpenResolve(e) ==
    /\ ev[e].tpc = "open"
    /\ cacheNames' = CachesOpen(cacheNames, CACHE_NAME)
    /\ ev' = [ev EXCEPT ![e] =
                Return([@ EXCEPT !.gen = curGen,
                                 !.ppc = IF ShouldCache(ev[e].req.url) THEN "pending"
                                         ELSE "none"],
                       ev[e].tresp)]
    /\ UNCHANGED <<eventVars, store, curGen, otherVars, putLog, wmeta>>

\* caches.open rejects: the catch block issues caches.match(request).
OpenFail(e) ==
    /\ ev[e].tpc = "open"
    /\ ev' = [ev EXCEPT ![e] = [@ EXCEPT !.tpc = "catch", !.lookups = @ + 1]]
    /\ UNCHANGED <<eventVars, cacheNames, store, curGen, otherVars, putLog, wmeta>>

\* A catch block that rethrows without looking at what the lookup found.
OnLastResortRethrows(rec, cached) == Throw(rec)

\* The catch block of fetchAndCache: the cached response when there is one,
\* else the error is rethrown.
OnLastResort(rec, cached) ==
    IF cached # NoResponse THEN Return(rec, cached) ELSE Throw(rec)

CatchMatch(e) ==
    /\ ev[e].tpc = "catch"
    /\ ev' = [ev EXCEPT ![e] =
                OnLastResort(@, CachesMatch(cacheNames, store, @.req.url))]
    /\ UNCHANGED <<eventVars, cacheNames, store, curGen, otherVars, putLog, wmeta>>

\* caches.match('/index.html') of the listener's .catch resolves: its value,
\* an entry or undefined, is the response.
FallbackResolve(e) ==
    /\ ev[e].pc = "fallback"
    /\ ev' = [ev EXCEPT ![e] =
                [@ EXCEPT !.resp = CachesMatch(cacheNames, store,
                                               ResolveURL(<<"/", "index.html">>)),
                          !.pc = "done"]]
    /\ UNCHANGED <<eventVars, cacheNames, store, curGen, otherVars, putLog, wmeta>>

\* A put that keeps an entry that is already there.
PutEntryKeepFirst(old, snapshot) == IF old # NoResponse THEN old ELSE snapshot

\* The entry a completed cache.put leaves under its key.
PutEntry(old, snapshot) == snapshot

\* Whether a put through a handle opened at generation g reaches the
\* generation that CACHE_NAME addresses now.
Addressable(g) == g = curGen

\* A pending cache.put completes: the whole response is stored under the
\* request's URL in the generation the handle refers to.
PutCommit(e) ==
    /\ ev[e].ppc = "pending"
    /\ IF Addressable(ev[e].gen)
       THEN /\ store' = [store EXCEPT ![CACHE_NAME][ev[e].req.url] =
                                          PutEntry(@, ev[e].tresp)]
            /\ putLog' = Append(putLog, e)
            /\ wmeta' = [wmeta EXCEPT ![ev[e].req.url] =
                            [gen |-> ev[e].gen, epoch |-> ev[e].epoch, by |-> "fetch"]]
            /\ ev' = [ev EXCEPT ![e].ppc = "written"]
       ELSE /\ ev' = [ev EXCEPT ![e].ppc = "orphaned"]
            /\ UNCHANGED <<store, putLog, wmeta>>
    /\ UNCHANGED <<eventVars, cacheNames, curGen, otherVars>>

\* A pending cache.put rejects (quota exceeded): nothing is stored, and the
\* rejection is observed by nobody.
PutFail(e) ==
    /\ ev[e].ppc = "pending"
    /\ ev' = [ev EXCEPT ![e].ppc = "failed"]
    /\ UNCHANGED <<eventVars, cacheNames, store, curGen, otherVars, putLog, wmeta>>

\* ------------------------------------------------------------------- push
\* The push payloads: JSON objects with any of the fields title, body and
\* url, each an empty or a non-empty string.
FieldNames == {"title", "body", "url"}

FieldSample(f) ==
    IF f = "title" THEN "Reminder" ELSE IF f = "body" THEN "Study now" ELSE "/session"

Payloads ==
    UNION { { [f \in S |-> IF f \in E THEN "" ELSE FieldSample(f)] : E \in SUBSET S }
            : S \in SUBSET FieldNames }

\* data.field || fallback: the fallback replaces every falsy value, a
\* missing field (undefined) and the empty string alike.
OrDefault(data, f, fallback) ==
    IF f \in DOMAIN data /\ data[f] # "" THEN data[f] ELSE fallback

\* The title and the options the listener passes to showNotification.
NotificationOf(data) ==
    [title   |-> OrDefault(data, "title", "Solo Leveling System"),
     body    |-> OrDefault(data, "body", "Time to study!"),
     url     |-> OrDefault(data, "url", "/"),
     actions |-> <<"open", "dismiss">>,
     closed  |-> FALSE]

\* What the push service delivers: the text of one of the JSON objects, or
\* a text that is not JSON.
PushTexts ==
    { [json |-> TRUE, value |-> d] : d \in Payloads }
        \cup { [json |-> FALSE, value |-> <<>>] }

\* A push event is dispatched. Without a payload the listener returns at
\* once; with one it calls event.data.json(), which throws on a text that is
\* not JSON, and hands showNotification's promise to waitUntil.
Push(hasData, text) ==
    /\ phase = "activated"
    /\ push.pc # "showing"
    /\ pushCount < MaxPush
    /\ pushCount' = pushCount + 1
    /\ push' = IF ~hasData
               THEN [pc |-> "returned", hasData |-> FALSE, data |-> <<>>, wait |-> "none"]
               ELSE IF ~text.json
               THEN [pc |-> "threw", hasData |-> TRUE, data |-> <<>>, wait |-> "none"]
               ELSE [pc |-> "showing", hasData |-> TRUE, data |-> text.value,
                     wait |-> "pending"]
    /\ UNCHANGED <<notifications, lastMsg, clickVars, cacheVars, lifecycleVars,
                   skipWaiting, msgVars>>

\* showNotification completes: the notification is displayed and the promise
\* given to waitUntil resolves.
ShowNotificationDone ==
    /\ push.pc = "showing"
    /\ notifications' = Append(notifications, NotificationOf(push.data))
    /\ push' = [push EXCEPT !.pc = "shown", !.wait = "resolved"]
    /\ UNCHANGED <<pushCount, lastMsg, clickVars, cacheVars, lifecycleVars,
                   skipWaiting, msgVars>>

\* ------------------------------------------------------ notificationclick
\* The window clients clients.matchAll can resolve with: windows of the
\* worker's origin, one of them showing about:blank.
Windows ==
    { [id |-> 1, url |-> U_index],
      [id |-> 2, url |-> U_page],
      [id |-> 3, url |-> <<"about", ":", "blank">>] }

ClientLists ==
    {<<>>} \cup { <<w>> : w \in Windows }
           \cup { <<w, v>> : <<w, v>> \in { x \in Windows \X Windows : x[1] # x[2] } }

ClickActions == {"open", "dismiss", ""}

\* A listener that looks for a window whatever the action is.
ShouldOpenAlways(action) == TRUE

\* event.action === 'open' || !event.action
ShouldOpen(action) == action = "open" \/ action = ""

\* event.notification.data.url || '/'
TargetUrl(url) == IF url # "" THEN url ELSE "/"

\* The loop over clientList: the clients whose URL includes the origin (a
\* WindowClient always has focus), in the order of the list.
Focusable(list) == { j \in 1..Len(list) : Includes(list[j].url, Origin) }

\* The .then of matchAll: focus the first such client, else open a window.
OnClients(list, url) ==
    IF Focusable(list) # {}
    THEN [op |-> "focus",
          id |-> list[CHOOSE j \in Focusable(list) : \A i \in Focusable(list) : j <= i].id,
          url |-> ""]
    ELSE [op |-> "openWindow", id |-> 0, url |-> TargetUrl(url)]

\* A notificationclick event for displayed notification i is dispatched: the
\* notification is closed, and for 'open' or a bare click clients.matchAll
\* is issued inside waitUntil.
NotificationClick(i, action) ==
    /\ phase = "activated"
    /\ click.pc \in {"idle", "done"}
    /\ clickCount < MaxClicks
    /\ i \in 1..Len(notifications)
    /\ ~notifications[i].closed
    /\ clickCount' = clickCount + 1
    /\ notifications' = [notifications EXCEPT ![i].closed = TRUE]
    /\ calls' = << [op |-> "close", id |-> i, url |-> ""] >>
    /\ click' = IF ShouldOpen(action)
                THEN [pc |-> "matchAll", action |-> action, url |-> notifications[i].url,
                      wait |-> "pending", clients |-> <<>>]
                ELSE [pc |-> "done", action |-> action, url |-> notifications[i].url,
                      wait |-> "none", clients |-> <<>>]
    /\ UNCHANGED <<push, pushCount, lastMsg, cacheVars, lifecycleVars, skipWaiting, msgVars>>

\* clients.matchAll resolves with the windows open at that moment.
MatchAllResolve(list) ==
    /\ click.pc = "matchAll"
    /\ calls' = Append(calls, OnClients(list, click.url))
    /\ click' = [click EXCEPT !.pc = "done", !.wait = "resolved", !.clients = list]
    /\ UNCHANGED <<clickCount, pushVars, lastMsg, cacheVars, lifecycleVars, skipWaiting, msgVars>>

\* ------------------------------------------------------------------- spec
Next ==
    \/ InstallStart
    \/ InstallOpen
    \/ InstallAddAllOk
    \/ InstallAddAllFail
    \/ ActivateStart
    \/ \E n \in AllNames : ActivateDelete(n)
    \/ \E n \in AllNames : ActivateDeleteFail(n)
    \/ ActivateClaim
    \/ ActivateReject
    \/ \E m \in Messages : Message(m)
    \/ ClearResolve
    \/ GoOffline
    \/ \E e \in Events, r \in Requests : FetchEvent(e, r)
    \/ \E e \in Events : MatchResolve(e)
    \/ \E e \in Events : FetchOk(e)
    \/ \E e \in Events : FetchNotOk(e)
    \/ \E e \in Events : FetchError(e)
    \/ \E e \in Events : OpenResolve(e)
    \/ \E e \in Events : OpenFail(e)
    \/ \E e \in Events : CatchMatch(e)
    \/ \E e \in Events : FallbackResolve(e)
    \/ \E e \in Events : PutCommit(e)
    \/ \E e \in Events : PutFail(e)

Spec == Init /\ [][Next]_vars

\* The lifecycle with the message listener and no other events, the handled
\* message being observed: the listener shares no state with the fetch, push
\* and notificationclick listeners.
NextMessages ==
    \/ InstallStart
    \/ InstallOpen
    \/ InstallAddAllOk
    \/ InstallAddAllFail
    \/ ActivateStart
    \/ \E n \in AllNames : ActivateDelete(n)
    \/ \E n \in AllNames : ActivateDeleteFail(n)
    \/ ActivateClaim
    \/ ActivateReject
    \/ \E m \in Messages : MessageSeen(m)
    \/ ClearResolve

SpecMessages == Init /\ [][NextMessages]_vars

\* The worker's way to activation, then the push and notificationclick
\* listeners: these two share the displayed notifications and nothing with
\* the caches.
NextNotify ==
    \/ InstallStart
    \/ InstallOpen
    \/ InstallAddAllOk
    \/ ActivateStart
    \/ \E n \in AllNames : ActivateDelete(n)
    \/ ActivateClaim
    \/ \E text \in PushTexts : Push(TRUE, text)
    \/ Push(FALSE, [json |-> FALSE, value |-> <<>>])
    \/ ShowNotificationDone
    \/ \E i \in 1..MaxPush, a \in ClickActions : NotificationClick(i, a)
    \/ \E list \in ClientLists : MatchAllResolve(list)

SpecNotify == Init /\ [][NextNotify]_vars

\* ----------------------------------------------------------------- claims
\* The vocabulary of the claims: a URL's parsed scheme, host and origin, and
\* the Eligibility Set as the specification names it.

\* The parsed parts of a URL: the scheme before "://", the host between "://"
\* and the first "/".
SepAt(u) == CHOOSE i \in 1..Len(u) : u[i] = "://" /\ \A j \in 1..(i-1) : u[j] # "://"
Scheme(u) == SubSeq(u, 1, SepAt(u) - 1)
PathAt(u) == CHOOSE i \in (SepAt(u)+1)..Len(u) :
                 u[i] = "/" /\ \A j \in (SepAt(u)+1)..(i-1) : u[j] # "/"
Host(u) == SubSeq(u, SepAt(u) + 1, PathAt(u) - 1)
UrlOrigin(u) == SubSeq(u, 1, PathAt(u) - 1)

IsHttpScheme(u) == Scheme(u) \in {<<"http">>, <<"http", "s">>}

\* The request is served by the worker's own origin or by one of the three
\* allowlisted hosts.
InEligibilitySet(u) ==
    \/ UrlOrigin(u) = Origin
    \/ Host(u) \in { <<"fonts.googleapis.com">>, <<"fonts.gstatic.com">>,
                     <<"cdnjs.cloudflare.com">> }

Seen(e) == ev[e].pc # "idle"
Url(e) == ev[e].req.url

\* C1: an intercepted request from the Eligibility Set whose live fetch
\* returned 200 in an already answered event is, when issued again while the
\* network is down, answered with that stored snapshot (stated here for runs
\* in which no clear-cache message was received at all).
C1_OfflineReplay ==
    \A e \in Events :
        ( /\ ev[e].pc = "done"
          /\ ev[e].offline
          /\ ev[e].prior # {}
          /\ InEligibilitySet(Url(e))
          /\ clearCount = 0 )
        => ev[e].resp \in ev[e].prior

\* C2: no entry of the current generation is stored under a URL served by a
\* host outside the Eligibility Set.
C2_OnlyEligibleStored ==
    \A k \in Keys : store[CACHE_NAME][k] # NoResponse => InEligibilitySet(k)

\* C3: once the promise given to activate's waitUntil has resolved, at most
\* one generation exists and it is the one named CACHE_NAME.
C3_OneGenerationAfterActivate ==
    activateResult = "resolved" =>
        /\ Len(cacheNames) <= 1
        /\ NameSet(cacheNames) \subseteq {CACHE_NAME}

\* C3 witness: activation resolved after caches.keys() had listed a stale
\* generation, and fetch handling has created entries since.
C3_Witness ==
    /\ activateResult = "resolved"
    /\ keysSeen \cap StaleNames # {}
    /\ \E e \in Events : ev[e].ppc = "written"

\* C4: a navigation that finds no entry while the network is down is answered
\* with the cached /index.html, never with an absent response (stated here
\* for workers whose install stored every seed).
C4_NavigationGetsShell ==
    \A e \in Events :
        ( /\ ev[e].pc = "done"
          /\ ev[e].req.mode = "navigate"
          /\ ev[e].offline
          /\ ev[e].path = "miss"
          /\ ev[e].tpc = "threw"
          /\ ~seedFailed )
        => /\ ev[e].resp # NoResponse
           /\ Len(ev[e].resp.body) = 2
           /\ ev[e].resp.body[1] = U_index

\* C5: a non-navigation request that finds no entry and whose fetch fails is
\* answered, at once and always, with status 408 "Offline" and an empty body.
C5_OfflineStub ==
    \A e \in Events :
        (Seen(e) /\ ev[e].req.mode # "navigate") =>
            /\ ev[e].pc # "fallback"
            /\ (ev[e].path = "miss" /\ ev[e].tpc = "threw") =>
                   /\ ev[e].pc = "done"
                   /\ ev[e].resp = [status |-> 408, statusText |-> "Offline",
                                    body |-> <<>>]

C5_Witness ==
    \E e \in Events :
        /\ ev[e].offline
        /\ ev[e].req.mode # "navigate"
        /\ ev[e].path = "miss"
        /\ ev[e].tpc = "threw"
        /\ ev[e].resp.status = 408

\* C6 (as claimed): once a clear-cache message has been received, every entry
\* that can be read from the current generation was written by a fetch event
\* that started after that message.
C6_NoEntryUntilLaterFetch ==
    clearCount > 0 =>
        \A k \in Keys :
            store[CACHE_NAME][k] # NoResponse =>
                wmeta[k].by = "fetch" /\ wmeta[k].epoch = clearCount

\* C6 (amended): once the caches.delete issued for a clear-cache message has
\* completed, the current generation holds only entries put through a handle
\* opened after that deletion (clearCount - pendingClear deletions have
\* completed); a put pending on the deleted generation never reaches it, and
\* while no generation is addressable nothing is stored.
C6_ClearedUntilReopened ==
    /\ \A k \in Keys :
          store[CACHE_NAME][k] # NoResponse =>
              wmeta[k].gen = clearCount - pendingClear
    /\ CACHE_NAME \notin NameSet(cacheNames) => store[CACHE_NAME] = EmptyCache

\* C6 witness: the deletion completed, and a fetch that was in flight when
\* the message arrived has since stored its response in the re-created
\* generation, while another put was lost on the deleted one.
C6_Witness ==
    /\ clearCount > 0
    /\ pendingClear = 0
    /\ curGen > 0
    /\ \E e \in Events :
          /\ ev[e].ppc = "written"
          /\ ev[e].epoch < clearCount
          /\ ev[e].gen = curGen
          /\ store[CACHE_NAME][Url(e)] = ev[e].tresp
    /\ \E e \in Events : ev[e].ppc = "orphaned"

\* The puts logged for key k that reached the generation addressed now.
WritesTo(k) ==
    {i \in 1..Len(putLog) : Url(putLog[i]) = k /\ ev[putLog[i]].gen = curGen}

LastWrite(k) == CHOOSE i \in WritesTo(k) : \A j \in WritesTo(k) : j <= i

\* C7: the entry under a URL is absent or one whole snapshot that a live
\* fetch (or the install) obtained for that URL, and after any put it is the
\* snapshot of the put that completed last.
C7_WholeSnapshotLastWriteWins ==
    \A k \in Keys :
        LET entry == store[CACHE_NAME][k]
        IN  /\ \/ entry = NoResponse
               \/ k \in ASSETS_TO_CACHE /\ entry = NetResponse(k, 200, 1)
               \/ \E e \in Events : Url(e) = k /\ ev[e].tresp = entry
                                              /\ entry.status = 200
            /\ WritesTo(k) # {} => entry = ev[putLog[LastWrite(k)]].tresp

\* C7 witness: two overlapping events for one URL fetched different
\* snapshots, both puts completed, and the entry is the later one.
C7_Witness ==
    \E e, f \in Events :
        /\ e # f
        /\ Url(e) = Url(f)
        /\ ev[e].tresp # ev[f].tresp
        /\ Len(putLog) >= 2
        /\ putLog[Len(putLog) - 1] = e
        /\ putLog[Len(putLog)] = f
        /\ ev[e].gen = curGen
        /\ ev[f].gen = curGen
        /\ store[CACHE_NAME][Url(f)] = ev[f].tresp

\* C8: when a seed resource fails to fetch, the promise given to install's
\* waitUntil is rejected and the worker does not become installed.
C8_InstallFailsOnSeedFailure ==
    seedFailed =>
        /\ installResult = "rejected"
        /\ phase \notin {"installed", "activating", "activated"}

\* C9: an event whose request is not GET or whose scheme is not http(s) gets
\* no respondWith, no fetch, no cache lookup and no cache write.
C9_PassThrough ==
    \A e \in Events :
        (Seen(e) /\ (ev[e].req.method # "GET" \/ ~IsHttpScheme(Url(e)))) =>
            /\ ev[e].pc = "passthrough"
            /\ ev[e].tpc = "none"
            /\ ev[e].ppc = "none"
            /\ ev[e].resp = NoResponse
            /\ \A i \in 1..Len(putLog) : putLog[i] # e

\* C9 witness: a POST and a chrome-extension request have both been
\* dispatched and left alone.
C9_Witness ==
    /\ \E e \in Events : ev[e].pc = "passthrough" /\ ev[e].req.method = "POST"
    /\ \E e \in Events : ev[e].pc = "passthrough" /\ ~IsHttpScheme(Url(e))

\* C10: an event whose first lookup found an entry is answered with exactly
\* that entry as soon as the lookup resolves, whatever state the detached
\* refresh is in or ends in.
C10_HitServedFromCache ==
    \A e \in Events :
        ev[e].path = "hit" =>
            /\ ev[e].pc = "done"
            /\ ev[e].found # NoResponse
            /\ ev[e].resp = ev[e].found

\* C10 witness: the refresh of one answered hit has failed, and the refresh
\* of another fetched a different snapshot than the one delivered.
C10_Witness ==
    /\ \E e \in Events : ev[e].path = "hit" /\ ev[e].tpc = "threw"
    /\ \E e \in Events : /\ ev[e].path = "hit"
                         /\ ev[e].tpc = "returned"
                         /\ ev[e].tresp.status = 200
                         /\ ev[e].tresp # ev[e].resp

\* C11: every entry of the current generation holds a status-200 response,
\* and a live fetch that returned another status is handed to its caller
\* (the page, on a miss) without any cache.put being called for it.
C11_OnlyStatus200Stored ==
    /\ \A k \in Keys :
          store[CACHE_NAME][k] # NoResponse => store[CACHE_NAME][k].status = 200
    /\ \A e \in Events :
          ev[e].tresp.status \notin {0, 200} =>
              /\ ev[e].tpc = "returned"
              /\ ev[e].ppc = "none"
              /\ \A i \in 1..Len(putLog) : putLog[i] # e
              /\ ev[e].path = "miss" => (ev[e].pc = "done" /\ ev[e].resp = ev[e].tresp)

\* C11 witness: a refresh got a 404 for a URL whose 200 entry is still
\* stored, and a miss got a 404 that was passed to the page.
C11_Witness ==
    /\ \E e \in Events : /\ ev[e].path = "hit"
                         /\ ev[e].tresp.status = 404
                         /\ store[CACHE_NAME][Url(e)].status = 200
    /\ \E e \in Events : /\ ev[e].path = "miss"
                         /\ ev[e].tresp.status = 404
                         /\ ev[e].resp = ev[e].tresp

\* A message of a kind the listener does not know: no data, no type field,
\* or a type other than the two recognized ones.
Unrecognized(m) ==
    ~(m.hasData /\ m.hasType /\ m.type \in {"SKIP_WAITING", "CLEAR_CACHE"})

\* C12: the step in which the listener handles a message of an unrecognized
\* kind calls neither skipWaiting nor caches.delete and changes no cache
\* generation, no cache entry and nothing of the lifecycle.
C12_UnknownMessageIgnored ==
    [][ (lastMsg' # lastMsg /\ Unrecognized(lastMsg')) =>
            UNCHANGED <<cacheNames, store, curGen, skipWaiting, pendingClear,
                        clearCount, lifecycleVars>> ]_vars

\* C12 witness: a message with data but no type field was handled by the
\* activated worker, whose seeded entries are all in place and for which no
\* deletion was ever issued.
C12_Witness ==
    /\ lastMsg.hasData
    /\ ~lastMsg.hasType
    /\ phase = "activated"
    /\ clearCount = 0
    /\ pendingClear = 0
    /\ \A k \in ASSETS_TO_CACHE : store[CACHE_NAME][k] = NetResponse(k, 200, 1)

\* Whether a window's URL is a URL of the worker's own origin.
AtOwnOrigin(u) ==
    /\ StartsWith(u, Origin)
    /\ Len(u) > Len(Origin) => u[Len(Origin) + 1] = "/"

OwnWindows(list) == { j \in 1..Len(list) : AtOwnOrigin(list[j].url) }

PayloadOr(data, f, fallback) == IF f \in DOMAIN data THEN data[f] ELSE fallback

\* C14: a push without payload displays nothing and passes nothing to
\* waitUntil; a push with a payload displays one notification with the
\* actions 'open' and 'dismiss' whose title, body and url are the payload's
\* where the payload has them and the defaults where it does not; and the
\* promise given to waitUntil is resolved only once the notification is shown.
C14_PushShowsPayload ==
    /\ Len(notifications) <= pushCount
    /\ push.pc = "returned" => (push.wait = "none" /\ Len(notifications) < pushCount)
    /\ push.wait = "resolved" => push.pc = "shown"
    /\ push.hasData =>
          /\ push.pc \in {"showing", "shown"}
          /\ push.wait # "none"
          /\ push.pc = "shown" =>
                LET n == notifications[Len(notifications)]
                IN  /\ n.actions = <<"open", "dismiss">>
                    /\ n.title = PayloadOr(push.data, "title", "Solo Leveling System")
                    /\ n.body = PayloadOr(push.data, "body", "Time to study!")
                    /\ n.url = PayloadOr(push.data, "url", "/")

\* C15: when fetchAndCache has returned the status-200 response of an
\* eligible request to its caller, the cache.put it called for that response
\* has completed (stated here for workers whose install stored every seed).
C15_WriteBeforeReturn ==
    \A e \in Events :
        ( /\ ~seedFailed
          /\ ev[e].tpc = "returned"
          /\ ev[e].tresp.status = 200
          /\ InEligibilitySet(Url(e))
          /\ ev[e].ppc # "none" )
        => ev[e].ppc = "written"

\* C16: a miss whose live fetch returned status 200 is answered with that
\* network response, whether or not the response could be stored: never with
\* the 408 response, the app shell or nothing.
C16_WriteFailureKeepsResponse ==
    \A e \in Events :
        (ev[e].path = "miss" /\ ev[e].tresp.status = 200) =>
            /\ ev[e].pc # "fallback"
            /\ ev[e].pc = "done" => ev[e].resp = ev[e].tresp

\* The entries stored for a URL, in any generation.
EntriesFor(u) ==
    { store[n][u] : n \in { c \in NameSet(cacheNames) : store[c][u] # NoResponse } }

\* The live fetch of a miss failed with a network error.
MissNetworkError(rec) ==
    /\ rec.path = "miss"
    /\ rec.tresp = NoResponse
    /\ rec.tpc \in {"catch", "returned", "threw"}

\* C17: a miss whose live fetch failed makes one more lookup for its request,
\* two in all; the step in which that lookup resolves answers the event with
\* an entry stored for the request when there is one, and hands the error to
\* the listener's fallback only when there is none.
C17_OneLastLookup ==
    [][ \A e \in Events :
          /\ MissNetworkError(ev'[e]) => ev'[e].lookups = 2
          /\ (MissNetworkError(ev[e]) /\ ev[e].tpc = "catch" /\ ev'[e].tpc # "catch") =>
                IF EntriesFor(Url(e)) # {}
                THEN /\ ev'[e].tpc = "returned"
                     /\ ev'[e].pc = "done"
                     /\ ev'[e].resp \in EntriesFor(Url(e))
                ELSE /\ ev'[e].tpc = "threw"
                     /\ ev'[e].pc = (IF ev[e].req.mode = "navigate" THEN "fallback"
                                     ELSE "done")
                     /\ ev'[e].resp \in {NoResponse, OfflineResponse} ]_vars

\* C17 witness: a miss whose fetch failed was answered with the entry that an
\* overlapping event for the same URL stored after the first lookup.
C17_Witness ==
    \E e, f \in Events :
        /\ e # f
        /\ Url(e) = Url(f)
        /\ MissNetworkError(ev[e])
        /\ ev[e].tpc = "returned"
        /\ ev[e].lookups = 2
        /\ ev[f].ppc = "written"
        /\ ev[e].resp = ev[f].tresp

\* The snapshots only a generation of an earlier version holds.
StaleSnapshots == { StaleContent[k] : k \in Keys } \ {NoResponse}

\* C18: no response the interceptor serves (from the first lookup, the
\* last-resort lookup or the app-shell fallback) is an entry of a stale
\* generation.
C18_ServedFromCurrentGeneration ==
    \A e \in Events :
        /\ ev[e].found \notin StaleSnapshots
        /\ ev[e].resp \notin StaleSnapshots

\* C19: whenever clients.claim() has been called, no generation with a name
\* other than CACHE_NAME exists and no deletion is still in flight; and when
\* a deletion has failed, clients.claim() is not called.
C19_ClaimAfterCleanup ==
    /\ claimed =>
          /\ NameSet(cacheNames) \cap StaleNames = {}
          /\ toDelete = {}
    /\ deleteFailed => ~claimed

\* C19 witness: the clients were claimed by an activation that had found a
\* stale generation and deleted it.
C19_Witness ==
    /\ claimed
    /\ phase = "activated"
    /\ keysSeen \cap StaleNames # {}
    /\ ~deleteFailed
    /\ ev[1].pc = "idle"

\* C20: an entry of the current generation changes only in a step in which
\* a put of a status-200 response for that URL completes (the entry becomes
\* that response), in which a deletion of the generation completes, or in
\* which install's addAll completes; no other step of a revalidation or of a
\* miss-path fetch deletes or replaces an entry.
C20_FailedRefreshKeepsEntry ==
    [][ \A k \in Keys :
          store'[CACHE_NAME][k] # store[CACHE_NAME][k] =>
              \/ \E e \in Events :
                    /\ Url(e) = k
                    /\ ev[e].ppc = "pending"
                    /\ ev'[e].ppc = "written"
                    /\ ev[e].tresp.status = 200
                    /\ store'[CACHE_NAME][k] = ev[e].tresp
              \/ curGen' = curGen + 1 /\ store'[CACHE_NAME] = EmptyCache
              \/ installPc = "addAll" /\ installPc' = "done" ]_vars

\* C20 witness: one refresh failed with a network error and another fetch
\* returned 200 for a URL that fails the put test; the entry the first event
\* was served from is still stored and nothing is stored for the second URL.
C20_Witness ==
    /\ clearCount = 0
    /\ \E e \in Events : /\ ev[e].path = "hit"
                         /\ ev[e].tresp = NoResponse
                         /\ ev[e].tpc = "returned"
                         /\ store[CACHE_NAME][Url(e)] = ev[e].found
    /\ \E e \in Events : /\ Url(e) = U_other
                         /\ ev[e].tresp.status = 200
                         /\ ev[e].tpc = "returned"
                         /\ ev[e].ppc = "none"
                         /\ store[CACHE_NAME][U_other] = NoResponse

====
